---- MODULE Spec2Model ----
(***************************************************************************)
(* Model of the two cooperating HTTP services of LLMs_Microservices:       *)
(*   service A  (src/llm_service/main.py)  validates and answers /process, *)
(*   service B  (src/test_service/main.py) relays /test to service A.      *)
(* Python strings are TLA+ strings; they are taken apart with SubSeq and   *)
(* put together with \o, so that lower(), strip(), `in` and the f-strings  *)
(* are computed character by character as the code computes them.          *)
(***************************************************************************)
EXTENDS Integers, Sequences, FiniteSets, TLC

VARIABLES
    supported_platforms,  \* llm_processor.supported_platforms (service A)
    supported_models,     \* llm_processor.supported_models    (service A)
    now,                  \* the wall clock, in ticks of UsPerTick microseconds
    client,               \* per caller of service A: the last exchange on POST /process
    b_response,           \* service B: the response of the last handled call
    b_sent,               \* service B: outbound HTTP requests issued by the last handled call
    artifacts,            \* input of process_artifacts
    artifact_summary      \* result of process_artifacts (<<>> until it has run)

vars == <<supported_platforms, supported_models, now, client,
          b_response, b_sent, artifacts, artifact_summary>>

(***************************************************************************)
(* Bounds of the model.                                                    *)
(***************************************************************************)
MaxTime == 3          \* last clock tick at which a handler may start or end
NumClients == 2       \* concurrent callers of service A
MaxArtifacts == 5     \* longest artifacts list given to process_artifacts

UsPerTick == 500      \* clock resolution of the model: two ticks per millisecond
Clients == 1..NumClients

(***************************************************************************)
(* Python string primitives.                                               *)
(***************************************************************************)
CharAt(s, i) == SubSeq(s, i, i)

\* s[:n]
Prefix(s, n) == SubSeq(s, 1, IF n < Len(s) THEN n ELSE Len(s))

\* s.find(t, i-1) + 1 : the first position >= i at which t occurs in s, 0 if none
FindFrom(s, t, i) ==
    LET hits == { j \in i..(Len(s) - Len(t) + 1) : SubSeq(s, j, j + Len(t) - 1) = t }
    IN  IF hits = {} THEN 0 ELSE CHOOSE j \in hits : \A k \in hits : j <= k

\* t in s
Contains(s, t) == FindFrom(s, t, 1) # 0

\* s.startswith(t)
StartsWith(s, t) == Len(t) <= Len(s) /\ SubSeq(s, 1, Len(t)) = t

UpperAlphabet == "ABCDEFGHIJKLMNOPQRSTUVWXYZ"
LowerAlphabet == "abcdefghijklmnopqrstuvwxyz"

lower_char(ch) ==
    LET i == FindFrom(UpperAlphabet, ch, 1)
    IN  IF i = 0 THEN ch ELSE CharAt(LowerAlphabet, i)

RECURSIVE lower_from(_, _, _)
\* the characters lo..hi of s, each lower-cased
lower_from(s, lo, hi) ==
    IF lo > hi THEN ""
    ELSE IF lo = hi THEN lower_char(CharAt(s, lo))
    ELSE LET mid == (lo + hi) \div 2
         IN  lower_from(s, lo, mid) \o lower_from(s, mid + 1, hi)

\* str.lower()
lower(s) == lower_from(s, 1, Len(s))

Whitespace == {" ", "\t", "\n", "\r", "\f"}

RECURSIVE lstrip(_)
lstrip(s) ==
    IF Len(s) > 0 /\ CharAt(s, 1) \in Whitespace
    THEN lstrip(SubSeq(s, 2, Len(s))) ELSE s

RECURSIVE rstrip(_)
rstrip(s) ==
    IF Len(s) > 0 /\ CharAt(s, Len(s)) \in Whitespace
    THEN rstrip(SubSeq(s, 1, Len(s) - 1)) ELSE s

\* str.strip()
strip(s) == rstrip(lstrip(s))

Digits == "0123456789"

RECURSIVE str(_)
\* str(n) of a non-negative int
str(n) ==
    IF n < 10 THEN CharAt(Digits, n + 1)
    ELSE str(n \div 10) \o CharAt(Digits, (n % 10) + 1)

RECURSIVE repr_items(_, _)
repr_items(list, i) ==
    IF i > Len(list) THEN ""
    ELSE (IF i > 1 THEN ", " ELSE "") \o "'" \o list[i] \o "'" \o repr_items(list, i + 1)

\* the text an f-string gives for a list of plain strings: ['a', 'b']
repr_list(list) == "[" \o repr_items(list, 1) \o "]"

(***************************************************************************)
(* Exceptions and HTTP responses.  A raised exception is a record; `None`  *)
(* is the record of a block that ended without raising.                    *)
(***************************************************************************)
NoException == [type |-> "None", status_code |-> 0, detail |-> ""]

\* fastapi.HTTPException(status_code=..., detail=...)
HTTPException(code, msg) == [type |-> "HTTPException", status_code |-> code, detail |-> msg]

\* any other exception e; detail holds str(e)
OtherException(kind, msg) == [type |-> kind, status_code |-> 0, detail |-> msg]

\* what the framework sends for an HTTPException that leaves a handler
ErrorResponse(exc) == [status_code |-> exc.status_code, body |-> [detail |-> exc.detail]]

\* the response carries {"detail": ...} and nothing else
IsErrorBodyOf(response) == DOMAIN response.body = {"detail"}

\* what the framework sends for a returned value
OkResponse(value) == [status_code |-> 200, body |-> value]

(***************************************************************************)
(* The clock.  datetime.now() is read in ticks of UsPerTick microseconds.  *)
(***************************************************************************)
\* int(t.timestamp() * 1000)
timestamp_ms(t) == (t * UsPerTick) \div 1000

pad(digits, width) == SubSeq("000000", 1, width - Len(digits)) \o digits

\* t.isoformat(): the fraction is left out when the microseconds are 0
isoformat(t) ==
    LET us == t * UsPerTick
    IN  "1970-01-01T00:00:" \o pad(str(us \div 1000000), 2)
        \o (IF us % 1000000 = 0 THEN "" ELSE "." \o pad(str(us % 1000000), 6))

\* (end - start).total_seconds() * 1000, as the decimal text of the float
total_ms(start_time, end_time) ==
    LET us == (end_time - start_time) * UsPerTick
    IN  str(us \div 1000) \o "." \o str((us % 1000) \div 100)

(***************************************************************************)
(* Service A: LLMProcessor.                                                *)
(***************************************************************************)
LLMRequest(arts, platform, model, prompt) ==
    [artifacts |-> arts, platform |-> platform, model |-> model, prompt |-> prompt]

\* x in list
InList(x, list) == \E i \in 1..Len(list) : list[i] = x

\* validate_request with the prompt tested without strip()
validate_request_unstripped(request) ==
    IF ~ InList(lower(request.platform), supported_platforms)
    THEN HTTPException(400,
            "Plataforma '" \o request.platform
            \o "' não suportada. Plataformas suportadas: " \o repr_list(supported_platforms))
    ELSE IF ~ \E i \in 1..Len(supported_models) :
                 Contains(lower(request.model), supported_models[i])
    THEN HTTPException(400,
            "Modelo '" \o request.model
            \o "' não suportado. Modelos suportados: " \o repr_list(supported_models))
    ELSE IF request.prompt = ""
    THEN HTTPException(400, "Prompt não pode estar vazio")
    ELSE NoException

\* validate_request with the model tested before the platform
validate_request_model_first(request) ==
    IF ~ \E i \in 1..Len(supported_models) :
            Contains(lower(request.model), supported_models[i])
    THEN HTTPException(400,
            "Modelo '" \o request.model
            \o "' não suportado. Modelos suportados: " \o repr_list(supported_models))
    ELSE IF ~ InList(lower(request.platform), supported_platforms)
    THEN HTTPException(400,
            "Plataforma '" \o request.platform
            \o "' não suportada. Plataformas suportadas: " \o repr_list(supported_platforms))
    ELSE IF strip(request.prompt) = ""
    THEN HTTPException(400, "Prompt não pode estar vazio")
    ELSE NoException

\* validate_request with the model message listing the platforms
validate_request_wrong_list(request) ==
    IF ~ InList(lower(request.platform), supported_platforms)
    THEN HTTPException(400,
            "Plataforma '" \o request.platform
            \o "' não suportada. Plataformas suportadas: " \o repr_list(supported_platforms))
    ELSE IF ~ \E i \in 1..Len(supported_models) :
                 Contains(lower(request.model), supported_models[i])
    THEN HTTPException(400,
            "Modelo '" \o request.model
            \o "' não suportado. Modelos suportados: " \o repr_list(supported_platforms))
    ELSE IF strip(request.prompt) = ""
    THEN HTTPException(400, "Prompt não pode estar vazio")
    ELSE NoException

\* LLMProcessor.validate_request: the exception it raises, NoException when it returns True
validate_request(request) ==
    IF ~ InList(lower(request.platform), supported_platforms)
    THEN HTTPException(400,
            "Plataforma '" \o request.platform
            \o "' não suportada. Plataformas suportadas: " \o repr_list(supported_platforms))
    ELSE IF ~ \E i \in 1..Len(supported_models) :
                 Contains(lower(request.model), supported_models[i])
    THEN HTTPException(400,
            "Modelo '" \o request.model
            \o "' não suportado. Modelos suportados: " \o repr_list(supported_models))
    ELSE IF strip(request.prompt) = ""
    THEN HTTPException(400, "Prompt não pode estar vazio")
    ELSE NoException

RECURSIVE artifact_lines(_, _)
\* the loop over enumerate(artifacts[:3])
artifact_lines(head, i) ==
    IF i > Len(head) THEN ""
    ELSE "\n- Artefato " \o str(i) \o ": " \o Prefix(head[i], 100) \o "..."
         \o artifact_lines(head, i + 1)

\* process_artifacts with the remainder line already written for 3 artifacts
process_artifacts_early_remainder(arts) ==
    IF Len(arts) = 0 THEN "Nenhum artefato fornecido"
    ELSE "Processando " \o str(Len(arts)) \o " artefato(s): "
         \o artifact_lines(SubSeq(arts, 1, IF Len(arts) < 3 THEN Len(arts) ELSE 3), 1)
         \o (IF Len(arts) >= 3
             THEN "\n- ... e mais " \o str(Len(arts) - 3) \o " artefato(s)"
             ELSE "")

\* LLMProcessor.process_artifacts
process_artifacts(arts) ==
    IF Len(arts) = 0 THEN "Nenhum artefato fornecido"
    ELSE "Processando " \o str(Len(arts)) \o " artefato(s): "
         \o artifact_lines(SubSeq(arts, 1, IF Len(arts) < 3 THEN Len(arts) ELSE 3), 1)
         \o (IF Len(arts) > 3
             THEN "\n- ... e mais " \o str(Len(arts) - 3) \o " artefato(s)"
             ELSE "")

\* generate_response that dates the text it composes
generate_response_dated(request) ==
    LET artifact_context == process_artifacts(request.artifacts)
    IN  strip(
          "\nResposta gerada pela LLM " \o request.model \o " na plataforma "
              \o request.platform \o " em " \o isoformat(now) \o ":\n"
          \o "\nContexto dos Artefatos:\n"
          \o artifact_context \o "\n"
          \o "\nPrompt Original: \"" \o request.prompt \o "\"\n"
          \o "\nResposta Simulada:\n"
          \o "Com base nos artefatos fornecidos e no prompt \"" \o request.prompt \o "\", \n"
          \o "a análise indica que o sistema deve considerar os seguintes aspectos:\n"
          \o "\n1. Análise dos artefatos fornecidos\n"
          \o "2. Aplicação do modelo " \o request.model \o " para processamento\n"
          \o "3. Geração de resposta contextualizada\n"
          \o "\nEsta é uma resposta simulada. Em produção, seria gerada pelo modelo real "
              \o request.model \o ".\n"
          \o "        ")

\* LLMProcessor.generate_response
generate_response(request) ==
    LET artifact_context == process_artifacts(request.artifacts)
    IN  strip(
          "\nResposta gerada pela LLM " \o request.model \o " na plataforma "
              \o request.platform \o ":\n"
          \o "\nContexto dos Artefatos:\n"
          \o artifact_context \o "\n"
          \o "\nPrompt Original: \"" \o request.prompt \o "\"\n"
          \o "\nResposta Simulada:\n"
          \o "Com base nos artefatos fornecidos e no prompt \"" \o request.prompt \o "\", \n"
          \o "a análise indica que o sistema deve considerar os seguintes aspectos:\n"
          \o "\n1. Análise dos artefatos fornecidos\n"
          \o "2. Aplicação do modelo " \o request.model \o " para processamento\n"
          \o "3. Geração de resposta contextualizada\n"
          \o "\nEsta é uma resposta simulada. Em produção, seria gerada pelo modelo real "
              \o request.model \o ".\n"
          \o "        ")

(***************************************************************************)
(* Service A: POST /process.  `fault` is the exception that the generation *)
(* step raises in this call (NoException in an undisturbed run).           *)
(***************************************************************************)
\* the try block of process_llm_request: what it raises, and what it returns otherwise
process_try(request, start_time, end_time, fault) ==
    LET request_id == "req_" \o str(timestamp_ms(start_time))
        invalid == validate_request(request)
        response_text == generate_response(request)
        metadata == [platform_used   |-> request.platform,
                     model_used      |-> request.model,
                     artifacts_count |-> Len(request.artifacts),
                     prompt_length   |-> Len(request.prompt),
                     response_length |-> Len(response_text)]
    IN  IF invalid # NoException THEN [raised |-> invalid, value |-> <<>>]
        ELSE IF fault # NoException THEN [raised |-> fault, value |-> <<>>]
        ELSE [raised |-> NoException,
              value  |-> [request_id         |-> request_id,
                          status             |-> "success",
                          response_text      |-> response_text,
                          metadata           |-> metadata,
                          timestamp          |-> isoformat(end_time),
                          processing_time_ms |-> total_ms(start_time, end_time)]]

\* process_except with `except Exception` alone
process_except_rewrap(raised) ==
    HTTPException(500, "Erro interno do servidor: " \o raised.detail)

\* the except clauses of process_llm_request: the exception that leaves the handler
process_except(raised) ==
    IF raised.type = "HTTPException" THEN raised
    ELSE HTTPException(500, "Erro interno do servidor: " \o raised.detail)

\* process_llm_request: the HTTP response of POST /process
process_llm_request(request, start_time, end_time, fault) ==
    LET outcome == process_try(request, start_time, end_time, fault)
    IN  IF outcome.raised = NoException THEN OkResponse(outcome.value)
        ELSE ErrorResponse(process_except(outcome.raised))

\* service A, GET /health
llm_service_health_check(t) ==
    OkResponse([status |-> "healthy", timestamp |-> isoformat(t), version |-> "1.0.0"])

\* service A, GET /models
llm_service_get_supported_models ==
    OkResponse([supported_models |-> supported_models, count |-> Len(supported_models)])

\* service A, GET /platforms
llm_service_get_supported_platforms ==
    OkResponse([supported_platforms |-> supported_platforms,
                count |-> Len(supported_platforms)])

\* service A, GET /
llm_service_root ==
    OkResponse([service |-> "LLM Microservice",
                version |-> "1.0.0",
                description |-> "Microserviço para processamento de LLM local offline",
                endpoints |-> [health |-> "/health", process |-> "/process",
                               models |-> "/models", platforms |-> "/platforms"]])

(***************************************************************************)
(* The outbound call of service B.  `net` is what happens to one request   *)
(* on its way: it is served by service A, answered by something in between *)
(* with a non-200 status, or it fails in the requests library.             *)
(***************************************************************************)
Nets == {"served", "not_found", "bad_gateway", "refused", "timeout"}

NoResponse == [status_code |-> 0, body |-> [raw |-> ""]]

\* the outcome of requests.get / requests.post: the exception raised, or the response
Upstream(net, served) ==
    CASE net = "served" -> [exc |-> NoException, response |-> served]
      [] net = "not_found" ->
            [exc |-> NoException,
             response |-> [status_code |-> 404, body |-> [detail |-> "Not Found"]]]
      [] net = "bad_gateway" ->
            [exc |-> NoException,
             response |-> [status_code |-> 502, body |-> [raw |-> "<h1>Bad Gateway</h1>"]]]
      [] net = "refused" ->
            [exc |-> OtherException("ConnectionError", "Connection refused"),
             response |-> NoResponse]
      [] net = "timeout" ->
            [exc |-> OtherException("Timeout", "Read timed out. (read timeout=30)"),
             response |-> NoResponse]

\* isinstance(e, requests.exceptions.RequestException)
IsRequestException(exc) == exc.type \in {"ConnectionError", "Timeout"}

json_escape_char(ch) ==
    CASE ch = "\"" -> "\\\""
      [] ch = "\\" -> "\\\\"
      [] ch = "\n" -> "\\n"
      [] ch = "\t" -> "\\t"
      [] OTHER -> ch

RECURSIVE json_escape(_, _, _)
\* the characters lo..hi of s as they stand in a JSON string literal
json_escape(s, lo, hi) ==
    IF lo > hi THEN ""
    ELSE IF lo = hi THEN json_escape_char(CharAt(s, lo))
    ELSE LET mid == (lo + hi) \div 2
         IN  json_escape(s, lo, mid) \o json_escape(s, mid + 1, hi)

\* response.text of an error response: the JSON of {"detail": ...}, or the raw body
text(response) ==
    CASE IsErrorBodyOf(response) -> "{\"detail\":\"" \o json_escape(response.body.detail, 1, Len(response.body.detail)) \o "\"}"
      [] DOMAIN response.body = {"raw"} -> response.body.raw

(***************************************************************************)
(* Service B: LLMClient.  Every method gives the exception it raises, the  *)
(* value it returns otherwise, and the outbound requests it has issued.    *)
(***************************************************************************)
LLM_SERVICE_URL == "http://llm-service:8000"

RECURSIVE rstrip_slash(_)
\* str.rstrip('/')
rstrip_slash(s) ==
    IF Len(s) > 0 /\ CharAt(s, Len(s)) = "/"
    THEN rstrip_slash(SubSeq(s, 1, Len(s) - 1)) ELSE s

\* LLMClient.__init__
base_url == rstrip_slash(LLM_SERVICE_URL)

Outbound(method, path, timeout) ==
    [method |-> method, url |-> base_url \o path, timeout |-> timeout]

Returned(name, sent, value) ==
    [method |-> name, sent |-> sent, raised |-> NoException, value |-> value]
Raised(name, sent, exc) ==
    [method |-> name, sent |-> sent, raised |-> exc, value |-> <<>>]

\* check_health that takes any answer for a healthy one
LLMClient_check_health_any_status(up) ==
    Returned("check_health", <<Outbound("GET", "/health", 5)>>, up.exc = NoException)

\* LLMClient.check_health
LLMClient_check_health(up) ==
    Returned("check_health", <<Outbound("GET", "/health", 5)>>,
             IF up.exc # NoException THEN FALSE ELSE up.response.status_code = 200)

\* get_supported_models without its try/except
LLMClient_get_supported_models_raising(up) ==
    IF up.exc # NoException
    THEN Raised("get_supported_models", <<Outbound("GET", "/models", 5)>>, up.exc)
    ELSE Returned("get_supported_models", <<Outbound("GET", "/models", 5)>>,
                  IF up.response.status_code = 200
                  THEN (IF "supported_models" \in DOMAIN up.response.body
                        THEN up.response.body.supported_models ELSE <<>>)
                  ELSE <<>>)

\* LLMClient.get_supported_models
LLMClient_get_supported_models(up) ==
    Returned("get_supported_models", <<Outbound("GET", "/models", 5)>>,
             IF up.exc # NoException THEN <<>>
             ELSE IF up.response.status_code = 200
                  THEN (IF "supported_models" \in DOMAIN up.response.body
                        THEN up.response.body.supported_models ELSE <<>>)
                  ELSE <<>>)

\* LLMClient.get_supported_platforms
LLMClient_get_supported_platforms(up) ==
    Returned("get_supported_platforms", <<Outbound("GET", "/platforms", 5)>>,
             IF up.exc # NoException THEN <<>>
             ELSE IF up.response.status_code = 200
                  THEN (IF "supported_platforms" \in DOMAIN up.response.body
                        THEN up.response.body.supported_platforms ELSE <<>>)
                  ELSE <<>>)

\* the payload that LLMClient.process_request posts
process_payload(request) ==
    [artifacts |-> request.artifacts, platform |-> request.platform,
     model |-> request.model, prompt |-> request.prompt]

\* process_request that posts a second time when the first call raised
LLMClient_process_request_retry(request, up) ==
    LET once == <<Outbound("POST", "/process", 30)>>
        sent == IF up.exc # NoException THEN once \o once ELSE once
    IN  IF up.exc # NoException
        THEN IF IsRequestException(up.exc)
             THEN Raised("process_request", sent,
                         HTTPException(503, "Serviço LLM indisponível: " \o up.exc.detail))
             ELSE Raised("process_request", sent, up.exc)
        ELSE IF up.response.status_code = 200
             THEN Returned("process_request", sent, up.response.body)
             ELSE Raised("process_request", sent,
                         HTTPException(up.response.status_code,
                                       "Erro do serviço LLM: " \o text(up.response)))

\* LLMClient.process_request
LLMClient_process_request(request, up) ==
    LET sent == <<Outbound("POST", "/process", 30)>>
    IN  IF up.exc # NoException
        THEN IF IsRequestException(up.exc)
             THEN Raised("process_request", sent,
                         HTTPException(503, "Serviço LLM indisponível: " \o up.exc.detail))
             ELSE Raised("process_request", sent, up.exc)
        ELSE IF up.response.status_code = 200
             THEN Returned("process_request", sent, up.response.body)
             ELSE Raised("process_request", sent,
                         HTTPException(up.response.status_code,
                                       "Erro do serviço LLM: " \o text(up.response)))

(***************************************************************************)
(* Service B: the handlers.                                                *)
(***************************************************************************)
\* service B, GET /health
test_service_health_check(llm_healthy, t) ==
    OkResponse([status |-> IF llm_healthy THEN "healthy" ELSE "degraded",
                timestamp |-> isoformat(t),
                llm_service_status |-> IF llm_healthy THEN "healthy" ELSE "unhealthy"])

\* service B, GET /models
test_service_get_supported_models(models) ==
    OkResponse([supported_models |-> models, count |-> Len(models), source |-> "llm_service"])

\* service B, GET /platforms
test_service_get_supported_platforms(platforms) ==
    OkResponse([supported_platforms |-> platforms, count |-> Len(platforms),
                source |-> "llm_service"])

RECURSIVE html_options(_, _)
\* "".join(f'<option value="{p}">{p}</option>' for p in ...)
html_options(list, i) ==
    IF i > Len(list) THEN ""
    ELSE "<option value=\"" \o list[i] \o "\">" \o list[i] \o "</option>"
         \o html_options(list, i + 1)

\* service B, GET /ui: the two select elements of the page
test_ui(models, platforms) ==
    OkResponse([platform_options |-> html_options(platforms, 1),
                model_options |-> html_options(models, 1)])

\* the try block of test_llm_service, given the result of llm_client.process_request
test_try(request, called, start_time, end_time) ==
    IF called.raised # NoException THEN [raised |-> called.raised, value |-> <<>>]
    ELSE [raised |-> NoException,
          value  |-> [test_id          |-> "test_" \o str(timestamp_ms(start_time)),
                      llm_request      |-> request,
                      llm_response     |-> called.value,
                      status           |-> "success",
                      timestamp        |-> isoformat(end_time),
                      test_duration_ms |-> total_ms(start_time, end_time)]]

\* test_except with `except Exception` alone
test_except_rewrap(raised) ==
    HTTPException(500, "Erro interno do servidor: " \o raised.detail)

\* the except clauses of test_llm_service: the exception that leaves the handler
test_except(raised) ==
    IF raised.type = "HTTPException" THEN raised
    ELSE HTTPException(500, "Erro interno do servidor: " \o raised.detail)

\* service B, POST /test: the HTTP response
test_llm_service(request, called, start_time, end_time) ==
    LET outcome == test_try(request, called, start_time, end_time)
    IN  IF outcome.raised = NoException THEN OkResponse(outcome.value)
        ELSE ErrorResponse(test_except(outcome.raised))

(***************************************************************************)
(* Inputs.                                                                 *)
(***************************************************************************)
Platforms == {"huggingface", "OpenAI", "aws", "local ", "open"}
Models    == {"llama-7b", "My-GPT4", "bert", "", "l lama"}
Prompts   == {"Summarize", " hi\n", "", " \t\n"}

Long100 == "0123456789012345678901234567890123456789012345678901234567890123456789012345678901234567890123456789"
ArtifactPool == {"", "def f():\n  pass", Long100, Long100 \o "TAIL"}

Requests ==
    { LLMRequest(a, p, m, q) :
        a \in {<<>>, <<"spec.md", Long100 \o "TAIL", "", "main.py">>},
        p \in Platforms, m \in Models, q \in Prompts }

\* the requests that callers repeat against service A
RepeatRequests ==
    { LLMRequest(<<>>, "huggingface", "llama-7b", "Summarize"),
      LLMRequest(<<"spec.md">>, "aws", "llama-7b", "Summarize") }

\* the requests posted to service B's /test
TestRequests ==
    { LLMRequest(<<>>, "huggingface", "llama-7b", "Summarize"),
      LLMRequest(<<"spec.md", "main.py">>, "OpenAI", "My-GPT4", " hi\n"),
      LLMRequest(<<"spec.md">>, "aws", "llama-7b", "Summarize"),
      LLMRequest(<<>>, "local", "b\"ert\\", "Summarize"),
      LLMRequest(<<>>, "ollama", "phi-2", " \t\n") }

\* the lists given to process_artifacts
ArtifactLists == UNION { [1..n -> ArtifactPool] : n \in 0..MaxArtifacts }

\* what the generation step may raise
Faults == {NoException, OtherException("RuntimeError", "generation failed")}

(***************************************************************************)
(* State machine.                                                          *)
(***************************************************************************)
NoCall == <<>>
\* what is known of one handled call: the request, the failure of the generation step
\* in that call, and the response
Exchange(request, fault, response) ==
    <<[endpoint |-> "/process", request |-> request, fault |-> fault,
       response |-> response]>>

InitServices ==
    /\ supported_platforms = <<"huggingface", "openai", "local", "ollama">>
    /\ supported_models = <<"llama", "deepseek", "gpt", "mistral", "phi">>
    /\ now = 0
    /\ client = [c \in Clients |-> NoCall]
    /\ b_response = NoCall
    /\ b_sent = <<>>

Init ==
    /\ InitServices
    /\ artifacts = <<>>
    /\ artifact_summary = <<>>

\* time passes between two handler runs
Tick ==
    /\ now < MaxTime
    /\ now' = now + 1
    /\ UNCHANGED <<supported_platforms, supported_models, client,
                   b_response, b_sent, artifacts, artifact_summary>>

\* Caller c posts `request` to service A's /process (each caller posts once); the
\* handler has no await, so it runs in one step of the event loop, and `elapsed`
\* ticks pass while it runs.
PostProcess(c, request, elapsed, fault) ==
    /\ client[c] = NoCall
    /\ now + elapsed <= MaxTime
    /\ client' = [client EXCEPT ![c] =
                     Exchange(request, fault,
                              process_llm_request(request, now, now + elapsed, fault))]
    /\ now' = now + elapsed
    /\ UNCHANGED <<supported_platforms, supported_models,
                   b_response, b_sent, artifacts, artifact_summary>>

\* one caller, every request, no failure of the generation step
Next ==
    \/ Tick
    \/ \E request \in Requests, elapsed \in 0..1 : PostProcess(1, request, elapsed, NoException)

Spec == Init /\ [][Next]_vars

\* one caller, every request, the generation step may fail
NextFault ==
    \/ Tick
    \/ \E request \in Requests, elapsed \in 0..1, fault \in Faults :
           PostProcess(1, request, elapsed, fault)

SpecFault == Init /\ [][NextFault]_vars

\* several callers repeating a few requests
NextCalls ==
    \/ Tick
    \/ \E c \in Clients, request \in RepeatRequests, elapsed \in 0..1 :
           PostProcess(c, request, elapsed, NoException)

SpecCalls == Init /\ [][NextCalls]_vars

(***************************************************************************)
(* Service B.  Its handlers call the blocking requests library, so each    *)
(* runs in one step, the upstream call included.                           *)
(***************************************************************************)
NoRequest == LLMRequest(<<>>, "", "", "")

\* what is known of one call handled by service B: the endpoint, the request body, the
\* outcome of each outbound call, the result of each LLMClient method, the response
BExchange(endpoint, request, upstreams, calls, response) ==
    <<[endpoint |-> endpoint, request |-> request, upstreams |-> upstreams,
       calls |-> calls, response |-> response]>>

GetHealth(net) ==
    LET up == Upstream(net, llm_service_health_check(now))
        called == LLMClient_check_health(up)
    IN  /\ b_response' = BExchange("/health", NoRequest, <<up>>, <<called>>,
                                   test_service_health_check(called.value, now))
        /\ b_sent' = called.sent
        /\ UNCHANGED <<supported_platforms, supported_models, now, client,
                       artifacts, artifact_summary>>

GetModels(net) ==
    LET up == Upstream(net, llm_service_get_supported_models)
        called == LLMClient_get_supported_models(up)
    IN  /\ b_response' = BExchange("/models", NoRequest, <<up>>, <<called>>,
                                   test_service_get_supported_models(called.value))
        /\ b_sent' = called.sent
        /\ UNCHANGED <<supported_platforms, supported_models, now, client,
                       artifacts, artifact_summary>>

GetPlatforms(net) ==
    LET up == Upstream(net, llm_service_get_supported_platforms)
        called == LLMClient_get_supported_platforms(up)
    IN  /\ b_response' = BExchange("/platforms", NoRequest, <<up>>, <<called>>,
                                   test_service_get_supported_platforms(called.value))
        /\ b_sent' = called.sent
        /\ UNCHANGED <<supported_platforms, supported_models, now, client,
                       artifacts, artifact_summary>>

GetUi(net_models, net_platforms) ==
    LET up_models == Upstream(net_models, llm_service_get_supported_models)
        models == LLMClient_get_supported_models(up_models)
        up_platforms == Upstream(net_platforms, llm_service_get_supported_platforms)
        platforms == LLMClient_get_supported_platforms(up_platforms)
    IN  /\ b_response' = BExchange("/ui", NoRequest, <<up_models, up_platforms>>,
                                   <<models, platforms>>,
                                   test_ui(models.value, platforms.value))
        /\ b_sent' = models.sent \o platforms.sent
        /\ UNCHANGED <<supported_platforms, supported_models, now, client,
                       artifacts, artifact_summary>>

PostTest(request, net, elapsed, fault) ==
    LET up == Upstream(net, process_llm_request(process_payload(request),
                                                 now, now + elapsed, fault))
        called == LLMClient_process_request(request, up)
    IN  /\ now + elapsed <= MaxTime
        /\ b_response' = BExchange("/test", request, <<up>>, <<called>>,
                                   test_llm_service(request, called, now, now + elapsed))
        /\ b_sent' = called.sent
        /\ now' = now + elapsed
        /\ UNCHANGED <<supported_platforms, supported_models, client,
                       artifacts, artifact_summary>>

NextB ==
    \/ Tick
    \/ \E net \in Nets : GetHealth(net)
    \/ \E net \in Nets : GetModels(net)
    \/ \E net \in Nets : GetPlatforms(net)
    \/ \E net_models \in Nets, net_platforms \in Nets : GetUi(net_models, net_platforms)
    \/ \E request \in TestRequests, net \in Nets, elapsed \in 0..1, fault \in Faults :
           PostTest(request, net, elapsed, fault)

SpecB == Init /\ [][NextB]_vars

(***************************************************************************)
(* process_artifacts on its own: every list of up to MaxArtifacts          *)
(* artifacts of the pool.                                                  *)
(***************************************************************************)
InitArtifacts ==
    /\ InitServices
    /\ artifacts \in ArtifactLists
    /\ artifact_summary = <<>>

ProcessArtifacts ==
    /\ artifact_summary = <<>>
    /\ artifact_summary' = <<process_artifacts(artifacts)>>
    /\ UNCHANGED <<supported_platforms, supported_models, now, client,
                   b_response, b_sent, artifacts>>

SpecArtifacts == InitArtifacts /\ [][ProcessArtifacts]_vars

(***************************************************************************)
(* Service A, all its handlers, called by several callers in any order.    *)
(***************************************************************************)
\* what is known of one handled GET
GetExchange(endpoint, response) ==
    <<[endpoint |-> endpoint, request |-> NoRequest, fault |-> NoException,
       response |-> response]>>

\* Caller c gets `endpoint` of service A (each caller calls once)
GetServiceA(c, endpoint) ==
    /\ client[c] = NoCall
    /\ client' = [client EXCEPT ![c] =
          GetExchange(endpoint,
              CASE endpoint = "/health" -> llm_service_health_check(now)
                [] endpoint = "/" -> llm_service_root
                [] endpoint = "/models" -> llm_service_get_supported_models
                [] endpoint = "/platforms" -> llm_service_get_supported_platforms)]
    /\ UNCHANGED <<supported_platforms, supported_models, now,
                   b_response, b_sent, artifacts, artifact_summary>>

GetEndpoints == {"/health", "/", "/models", "/platforms"}

NextServiceA ==
    \/ Tick
    \/ \E c \in Clients, request \in RepeatRequests, elapsed \in 0..1 :
           PostProcess(c, request, elapsed, NoException)
    \/ \E c \in Clients, endpoint \in GetEndpoints : GetServiceA(c, endpoint)

SpecServiceA == Init /\ [][NextServiceA]_vars

(***************************************************************************)
(* Properties of service A.                                                *)
(***************************************************************************)
AllowedPlatforms == {"huggingface", "openai", "local", "ollama"}
AllowedModels == {"llama", "deepseek", "gpt", "mistral", "phi"}

PlatformAllowed(request) == lower(request.platform) \in AllowedPlatforms
ModelAllowed(request) == \E m \in AllowedModels : Contains(lower(request.model), m)
PromptGiven(request) == Len(strip(request.prompt)) > 0
RequestValid(request) ==
    PlatformAllowed(request) /\ ModelAllowed(request) /\ PromptGiven(request)

\* the exchanges the callers of service A hold
Exchanges == { client[c][1] : c \in {d \in Clients : client[d] # NoCall} }

IsProcessingResult(body) == "request_id" \in DOMAIN body
IsErrorBody(body) == DOMAIN body = {"detail"}
Succeeded(x) ==
    /\ x.response.status_code = 200
    /\ IsProcessingResult(x.response.body)
    /\ x.response.body.status = "success"
Rejected(x) == x.response.status_code = 400 /\ IsErrorBody(x.response.body)

\* C1: POST /process answers 200 with a ProcessingResult of status "success" exactly
\* when the platform lower-cased is in the allow-list, the model lower-cased contains
\* an allowed name and the prompt is not blank; otherwise it answers 400 and produces
\* no ProcessingResult.
C1_SuccessIffValid ==
    \A x \in Exchanges :
        /\ Succeeded(x) <=> RequestValid(x.request)
        /\ ~ RequestValid(x.request) => Rejected(x)

C1_Witness ==
    \E x \in Exchanges :
        /\ x.request.platform = "OpenAI"
        /\ x.request.model = "My-GPT4"
        /\ x.request.prompt = " hi\n"
        /\ Succeeded(x)

IsPlatformError(x) == Rejected(x) /\ StartsWith(x.response.body.detail, "Plataforma '")
IsModelError(x) == Rejected(x) /\ StartsWith(x.response.body.detail, "Modelo '")
IsPromptError(x) == Rejected(x) /\ StartsWith(x.response.body.detail, "Prompt ")

\* C2: the checks run in the order platform, model, prompt and the first failing one
\* alone decides the error: an unsupported platform gives the platform error whatever
\* the model and prompt are, a supported platform with an unsupported model gives the
\* model error even when the prompt is blank.
C2_FirstFailingCheckDecides ==
    \A x \in Exchanges :
        /\ ~ PlatformAllowed(x.request) => IsPlatformError(x)
        /\ PlatformAllowed(x.request) /\ ~ ModelAllowed(x.request) => IsModelError(x)
        /\ PlatformAllowed(x.request) /\ ModelAllowed(x.request) /\ ~ PromptGiven(x.request)
              => IsPromptError(x)

C2_Witness ==
    \E x \in Exchanges :
        /\ PlatformAllowed(x.request)
        /\ ~ ModelAllowed(x.request)
        /\ ~ PromptGiven(x.request)
        /\ IsModelError(x)

Quoted(value) == "'" \o value \o "'"
NamesValue(detail, value) == Contains(detail, Quoted(value))
ListsValues(detail, allowed) == \A a \in allowed : Contains(detail, Quoted(a))

\* C3, as claimed: whichever check rejects the request, the message includes the
\* offending value (and the allowed values of that check).
C3_Original ==
    \A x \in Exchanges :
        /\ IsPlatformError(x) =>
              /\ Contains(x.response.body.detail, x.request.platform)
              /\ ListsValues(x.response.body.detail, AllowedPlatforms)
        /\ IsModelError(x) =>
              /\ Contains(x.response.body.detail, x.request.model)
              /\ ListsValues(x.response.body.detail, AllowedModels)
        /\ IsPromptError(x) => Contains(x.response.body.detail, x.request.prompt)

\* C3, amended: a request rejected by the platform check or by the model check gets a
\* message that includes the offending value and every allowed value of that check; a
\* request rejected by the prompt check gets the fixed message "Prompt não pode estar
\* vazio", which includes neither.
C3_MessageNamesValueAndList ==
    \A x \in Exchanges :
        /\ IsPlatformError(x) =>
              /\ NamesValue(x.response.body.detail, x.request.platform)
              /\ ListsValues(x.response.body.detail, AllowedPlatforms)
        /\ IsModelError(x) =>
              /\ NamesValue(x.response.body.detail, x.request.model)
              /\ ListsValues(x.response.body.detail, AllowedModels)
        /\ IsPromptError(x) => x.response.body.detail = "Prompt não pode estar vazio"

C3_Witness ==
    \E x \in Exchanges :
        /\ x.request.platform = "open"
        /\ IsPlatformError(x)
        /\ NamesValue(x.response.body.detail, "open")

\* C4: a validation error reaches the caller of POST /process unchanged (status 400,
\* the validator's detail) and is never rewrapped as a 500; a 500 is produced only
\* for a failure that is not a validation error, and its detail carries that
\* failure's message.
C4_ValidationErrorsPassUnchanged ==
    \A x \in Exchanges :
        /\ validate_request(x.request) # NoException =>
              /\ x.response.status_code = 400
              /\ x.response.body = [detail |-> validate_request(x.request).detail]
        /\ x.response.status_code = 500 =>
              /\ validate_request(x.request) = NoException
              /\ x.fault # NoException
              /\ x.fault.type # "HTTPException"
              /\ IsErrorBody(x.response.body)
              /\ Contains(x.response.body.detail, x.fault.detail)

C4_Witness ==
    \E x \in Exchanges :
        /\ RequestValid(x.request)
        /\ x.fault # NoException
        /\ x.response.status_code = 500
        /\ x.response.body.detail = "Erro interno do servidor: generation failed"

\* C8: two POST /process calls carrying the same valid request return distinct
\* request_id values.
C8_DistinctRequestIds ==
    \A c, d \in Clients :
        /\ c # d
        /\ client[c] # NoCall
        /\ client[d] # NoCall
        /\ client[c][1].request = client[d][1].request
        /\ Succeeded(client[c][1])
        /\ Succeeded(client[d][1])
        => client[c][1].response.body.request_id # client[d][1].response.body.request_id

(***************************************************************************)
(* Properties of service B.                                                *)
(***************************************************************************)
\* the calls service B has handled on `endpoint`
Handled(endpoint) ==
    IF b_response # NoCall /\ b_response[1].endpoint = endpoint THEN {b_response[1]} ELSE {}

UpstreamAnswered(up) == up.exc = NoException
NetworkFailure(up) == up.exc.type \in {"ConnectionError", "Timeout"}
IsGeneric500(response) ==
    /\ response.status_code = 500
    /\ StartsWith(response.body.detail, "Erro interno do servidor")

C6_HealthDegradesGracefully ==
    \A x \in Handled("/health") :
        LET up == x.upstreams[1]
            called == x.calls[1]
        IN  /\ called.raised = NoException
            /\ called.value = (UpstreamAnswered(up) /\ up.response.status_code = 200)
            /\ x.response.status_code = 200
            /\ called.value =>
                  /\ x.response.body.status = "healthy"
                  /\ x.response.body.llm_service_status = "healthy"
            /\ ~ called.value =>
                  /\ x.response.body.status = "degraded"
                  /\ x.response.body.llm_service_status = "unhealthy"

C6_Witness ==
    \E x \in Handled("/health") :
        /\ UpstreamAnswered(x.upstreams[1])
        /\ x.upstreams[1].response.status_code = 502
        /\ x.response.body.status = "degraded"

\* C7: get_supported_models and get_supported_platforms return the list of the upstream
\* response on a 200 and an empty list on any other status or any exception, without
\* raising; GET /models and GET /platforms of service B always answer 200 with count
\* equal to the length of that list and source "llm_service".
C7_DiscoveryDegradesGracefully ==
    /\ \A x \in Handled("/models") :
          LET up == x.upstreams[1]
              called == x.calls[1]
          IN  /\ called.raised = NoException
              /\ called.value =
                    (IF UpstreamAnswered(up) /\ up.response.status_code = 200
                     THEN <<"llama", "deepseek", "gpt", "mistral", "phi">> ELSE <<>>)
              /\ x.response.status_code = 200
              /\ x.response.body.supported_models = called.value
              /\ x.response.body.count = Len(called.value)
              /\ x.response.body.source = "llm_service"
    /\ \A x \in Handled("/platforms") :
          LET up == x.upstreams[1]
              called == x.calls[1]
          IN  /\ called.raised = NoException
              /\ called.value =
                    (IF UpstreamAnswered(up) /\ up.response.status_code = 200
                     THEN <<"huggingface", "openai", "local", "ollama">> ELSE <<>>)
              /\ x.response.status_code = 200
              /\ x.response.body.supported_platforms = called.value
              /\ x.response.body.count = Len(called.value)
              /\ x.response.body.source = "llm_service"

C7_Witness ==
    \E x \in Handled("/models") :
        /\ x.upstreams[1].exc.type = "ConnectionError"
        /\ x.response.status_code = 200
        /\ x.response.body.count = 0

\* the endpoints of service B and the LLMClient methods each of them invokes
InvokedBy(endpoint) ==
    CASE endpoint = "/health" -> <<"check_health">>
      [] endpoint = "/models" -> <<"get_supported_models">>
      [] endpoint = "/platforms" -> <<"get_supported_platforms">>
      [] endpoint = "/ui" -> <<"get_supported_models", "get_supported_platforms">>
      [] endpoint = "/test" -> <<"process_request">>

\* C10: every invocation of an LLMClient method issues exactly one outbound HTTP
\* request whatever its outcome, and POST /test invokes process_request exactly once:
\* no request is repeated after a non-200 answer, a timeout or a connection failure.
C10_OneOutboundRequestPerInvocation ==
    b_response # NoCall =>
        LET x == b_response[1]
        IN  /\ \A i \in 1..Len(x.calls) : Len(x.calls[i].sent) = 1
            /\ [i \in 1..Len(x.calls) |-> x.calls[i].method] = InvokedBy(x.endpoint)
            /\ Len(b_sent) = Len(x.calls)
            /\ x.endpoint = "/test" =>
                  b_sent = <<[method |-> "POST",
                              url |-> "http://llm-service:8000/process",
                              timeout |-> 30]>>

C10_Witness ==
    \E x \in Handled("/test") :
        /\ x.upstreams[1].exc.type = "Timeout"
        /\ x.response.status_code = 503
        /\ Len(b_sent) = 1

(***************************************************************************)
(* Properties of process_artifacts.                                        *)
(***************************************************************************)
RECURSIVE SplitOn(_, _)
\* s.split(sep)
SplitOn(s, sep) ==
    LET i == FindFrom(s, sep, 1)
    IN  IF i = 0 THEN <<s>>
        ELSE <<SubSeq(s, 1, i - 1)>> \o SplitOn(SubSeq(s, i + Len(sep), Len(s)), sep)

IsInlineSummary(item) == StartsWith(item, "Artefato ")
IsRemainderLine(item) == StartsWith(item, "... e mais ")
Shown(artifact) == IF Len(artifact) <= 100 THEN artifact ELSE SubSeq(artifact, 1, 100)
Min(a, b) == IF a < b THEN a ELSE b

\* C9: the artifact section holds exactly min(len(artifacts), 3) inline summaries, of
\* the first artifacts in order, each showing at most the first 100 characters of its
\* artifact followed by an ellipsis; it holds a line naming the remaining count exactly
\* when there are more than 3 artifacts, and that count is len(artifacts) - 3; for no
\* artifacts it states that none were supplied.
C9_ArtifactSection ==
    artifact_summary # <<>> =>
        LET section == artifact_summary[1]
            n == Len(artifacts)
            items == Tail(SplitOn(section, "\n- "))
            inline == SelectSeq(items, IsInlineSummary)
            remainder == SelectSeq(items, IsRemainderLine)
        IN  /\ n = 0 => section = "Nenhum artefato fornecido"
            /\ n > 0 =>
                  /\ ~ Contains(section, "Nenhum artefato")
                  /\ Len(inline) = Min(n, 3)
                  /\ \A i \in 1..Len(inline) :
                        inline[i] = "Artefato " \o str(i) \o ": " \o Shown(artifacts[i]) \o "..."
                  /\ Len(remainder) = (IF n > 3 THEN 1 ELSE 0)
                  /\ n > 3 => remainder[1] = "... e mais " \o str(n - 3) \o " artefato(s)"
                  /\ Len(items) = Len(inline) + Len(remainder)

C9_Witness ==
    /\ Len(artifacts) = 5
    /\ Len(artifacts[2]) = 104
    /\ artifact_summary # <<>>
    /\ Contains(artifact_summary[1], "\n- ... e mais 2 artefato(s)")
    /\ ~ Contains(artifact_summary[1], "TAIL")

(***************************************************************************)
(* Independence of the requests to service A.                              *)
(***************************************************************************)
\* the exchanges on POST /process that the callers of service A hold
ProcessExchanges == { x \in Exchanges : x.endpoint = "/process" }

\* status code, response_text and metadata of a response to POST /process
Outcome(response) ==
    IF response.status_code = 200
    THEN <<200, response.body.response_text, response.body.metadata>>
    ELSE <<response.status_code, response.body.detail>>

\* C11: whatever the order in which the handlers of service A run, the status code,
\* response_text and metadata of a POST /process response depend on the fields of its
\* own request alone (identical requests get identical ones, only request_id,
\* timestamp and processing_time_ms may differ), and the platform and model
\* allow-lists keep their startup values in every reachable state.
C11_RequestsAreIndependent ==
    /\ \A x \in ProcessExchanges, y \in ProcessExchanges :
          x.request = y.request => Outcome(x.response) = Outcome(y.response)
    /\ \A x \in ProcessExchanges :
          x.response.status_code = 200 =>
              /\ x.response.body.metadata.platform_used = x.request.platform
              /\ x.response.body.metadata.model_used = x.request.model
              /\ x.response.body.metadata.artifacts_count = Len(x.request.artifacts)
              /\ x.response.body.metadata.prompt_length = Len(x.request.prompt)
    /\ supported_platforms = <<"huggingface", "openai", "local", "ollama">>
    /\ supported_models = <<"llama", "deepseek", "gpt", "mistral", "phi">>

C11_Witness ==
    \E x \in ProcessExchanges, y \in ProcessExchanges :
        /\ x.request = y.request
        /\ x.response.status_code = 200
        /\ y.response.status_code = 200
        /\ x.response.body.timestamp # y.response.body.timestamp
        /\ x.response.body.response_text = y.response.body.response_text

====
